---- MODULE Spec2Model ----
(***************************************************************************)
(* Model of the template engine of package vue (src/unnamed/part_000):     *)
(* attribute ordering, directive dispatch, in-place tree rewriting during  *)
(* the element pass, loop key generation and the text pass.                *)
(*                                                                         *)
(* Strings are sequences of one-character strings, so that prefix tests,   *)
(* splitting, replacing and number formatting are computed as the code     *)
(* computes them.  The markup parser, the serializer and the mustache      *)
(* engine are external libraries; they are modelled at their boundary.     *)
(***************************************************************************)
EXTENDS Integers, Sequences, FiniteSets, TLC

\* ------------------------------------------------------------------ bounds

\* Longest attribute list of the generated single-node templates.
MaxAttrs == 2
\* Longest sequence bound to the field Items.
MaxItems == 6
\* The depth of executeElement calls up to which v-html is followed.
MaxDepth == 4

\* --------------------------------------------------------------- constants

v == <<"v", "-">>
vBind == <<"v", "-", "b", "i", "n", "d">>
vFor == <<"v", "-", "f", "o", "r">>
vHtml == <<"v", "-", "h", "t", "m", "l">>
vIf == <<"v", "-", "i", "f">>
vModel == <<"v", "-", "m", "o", "d", "e", "l">>
vOn == <<"v", "-", "o", "n">>

\* attrOrder with the two structural directives exchanged.
attrOrderIfFirst == <<vIf, vFor, vModel, vOn, vBind, vHtml>>

attrOrder == <<vFor, vIf, vModel, vOn, vBind, vHtml>>

\* ---------------------------------------------------------- string library

\* strings.HasPrefix
HasPrefix(s, prefix) ==
    /\ Len(s) >= Len(prefix)
    /\ SubSeq(s, 1, Len(prefix)) = prefix

\* strings.Index: the first position at which sub occurs in s, 0 when none.
Index(s, sub) ==
    LET hits == {i \in 1..(Len(s) - Len(sub) + 1) : SubSeq(s, i, i + Len(sub) - 1) = sub}
    IN IF hits = {} THEN 0 ELSE CHOOSE i \in hits : \A j \in hits : i <= j

\* strings.Split with a non-empty separator.
RECURSIVE Split(_, _)
Split(s, sep) ==
    LET i == Index(s, sep)
    IN IF i = 0 THEN <<s>>
       ELSE <<SubSeq(s, 1, i - 1)>> \o Split(SubSeq(s, i + Len(sep), Len(s)), sep)

\* bytes.Replace(s, old, new, -1) with a non-empty old.
RECURSIVE Replace(_, _, _)
Replace(s, old, new) ==
    LET i == Index(s, old)
    IN IF i = 0 THEN s
       ELSE SubSeq(s, 1, i - 1) \o new \o Replace(SubSeq(s, i + Len(old), Len(s)), old, new)

IsSpace(c) == c \in {" ", "\n", "\t"}

RECURSIVE TrimLeft(_)
TrimLeft(s) == IF s # <<>> /\ IsSpace(s[1]) THEN TrimLeft(Tail(s)) ELSE s

RECURSIVE TrimRight(_)
TrimRight(s) ==
    IF s # <<>> /\ IsSpace(s[Len(s)]) THEN TrimRight(SubSeq(s, 1, Len(s) - 1)) ELSE s

\* A TrimSpace that trims nothing.
TrimSpaceNone(s) == s

\* strings.TrimSpace / bytes.TrimSpace
TrimSpace(s) == TrimRight(TrimLeft(s))

Digits == <<"0", "1", "2", "3", "4", "5", "6", "7", "8", "9">>

\* The %d verb of fmt.Sprintf for a non-negative integer.
RECURSIVE Decimal(_)
Decimal(n) ==
    IF n < 10 THEN <<Digits[n + 1]>>
    ELSE Decimal(n \div 10) \o <<Digits[(n % 10) + 1]>>

LowerLetters ==
    <<"a", "b", "c", "d", "e", "f", "g", "h", "i", "j", "k", "l", "m",
      "n", "o", "p", "q", "r", "s", "t", "u", "v", "w", "x", "y", "z">>
UpperLetters ==
    <<"A", "B", "C", "D", "E", "F", "G", "H", "I", "J", "K", "L", "M",
      "N", "O", "P", "Q", "R", "S", "T", "U", "V", "W", "X", "Y", "Z">>

IsLetter(c) ==
    \E k \in 1..26 : c = LowerLetters[k] \/ c = UpperLetters[k]

ToUpper(c) ==
    IF \E k \in 1..26 : c = LowerLetters[k]
    THEN UpperLetters[CHOOSE k \in 1..26 : c = LowerLetters[k]]
    ELSE c

\* strings.Title: the first letter of every word is upper-cased; letters,
\* digits and the underscore continue a word, anything else separates.
IsSeparator(c) == ~(IsLetter(c) \/ c = "_" \/ \E k \in 1..10 : c = Digits[k])

Title(s) ==
    [k \in 1..Len(s) |->
        IF k = 1 \/ IsSeparator(s[k - 1]) THEN ToUpper(s[k]) ELSE s[k]]

\* ------------------------------------------------------------------ values

\* The dynamically typed values of the data context (interface{}).
Absent == [t |-> "absent", b |-> FALSE, s |-> <<>>, xs |-> <<>>]
BoolV(b) == [t |-> "bool", b |-> b, s |-> <<>>, xs |-> <<>>]
StrV(s) == [t |-> "str", b |-> FALSE, s |-> s, xs |-> <<>>]
\* A slice of strings.
SeqV(xs) == [t |-> "seq", b |-> FALSE, s |-> <<>>, xs |-> xs]

RECURSIVE JoinSpace(_)
JoinSpace(xs) ==
    IF xs = <<>> THEN <<>>
    ELSE IF Len(xs) = 1 THEN xs[1]
    ELSE xs[1] \o <<" ">> \o JoinSpace(Tail(xs))

\* fmt.Sprintf("%v", field)
Sprintv(val) ==
    CASE val.t = "bool" -> IF val.b THEN <<"t", "r", "u", "e">>
                           ELSE <<"f", "a", "l", "s", "e">>
      [] val.t = "str" -> val.s
      [] val.t = "seq" -> <<"[">> \o JoinSpace(val.xs) \o <<"]">>

\* data[key] as the pair (value, ok) of a Go map read.
HasKey(data, key) == key \in DOMAIN data
Lookup(data, key) == IF key \in DOMAIN data THEN data[key] ELSE Absent

\* data[key] = val
Store(data, key, val) ==
    [k \in (DOMAIN data) \cup {key} |-> IF k = key THEN val ELSE data[k]]


\* ------------------------------------------------------------------- trees

\* html.Node.  A node table is a sequence of nodes; a node is named by its
\* index, 0 is the nil pointer.  kids is the FirstChild/NextSibling chain.
ElementNode(tag, attr, kids, parent) ==
    [type |-> "element", data |-> tag, attr |-> attr, kids |-> kids, parent |-> parent]
TextNode(text, parent) ==
    [type |-> "text", data |-> text, attr |-> <<>>, kids |-> <<>>, parent |-> parent]

Attribute(key, val) == [key |-> key, val |-> val]

\* The position of x in the sequence s, 0 when x is not in it.
PosIn(s, x) ==
    IF \E k \in 1..Len(s) : s[k] = x THEN CHOOSE k \in 1..Len(s) : s[k] = x ELSE 0

RemoveAt(s, k) == SubSeq(s, 1, k - 1) \o SubSeq(s, k + 1, Len(s))

InsertAt(s, k, xs) == SubSeq(s, 1, k - 1) \o xs \o SubSeq(s, k, Len(s))

\* A FirstChild that finds no child.
FirstChildNone(ns, n) == 0

\* node.FirstChild
FirstChild(ns, n) == IF ns[n].kids = <<>> THEN 0 ELSE ns[n].kids[1]

\* node.NextSibling: nil for the last child and for a detached node.
NextSibling(ns, n) ==
    LET p == ns[n].parent
    IN IF p = 0 THEN 0
       ELSE LET k == PosIn(ns[p].kids, n)
            IN IF k = 0 \/ k = Len(ns[p].kids) THEN 0 ELSE ns[p].kids[k + 1]

\* parent.RemoveChild(n): n leaves its parent's children and keeps its own.
RemoveChild(ns, n) ==
    LET p == ns[n].parent
    IN [ns EXCEPT ![p].kids = RemoveAt(@, PosIn(@, n)), ![n].parent = 0]

\* parent.InsertBefore(c, n) for each c of the detached nodes cs, in order.
InsertBefore(ns, cs, n) ==
    LET p == ns[n].parent
    IN [k \in 1..Len(ns) |->
          IF k = p THEN [ns[k] EXCEPT !.kids = InsertAt(@, PosIn(@, n), cs)]
          ELSE IF PosIn(cs, k) # 0 THEN [ns[k] EXCEPT !.parent = p]
          ELSE ns[k]]

\* n.AppendChild(c) for each c of the detached nodes cs, in order.
AppendChild(ns, n, cs) ==
    [k \in 1..Len(ns) |->
        IF k = n THEN [ns[k] EXCEPT !.kids = @ \o cs]
        ELSE IF PosIn(cs, k) # 0 THEN [ns[k] EXCEPT !.parent = n]
        ELSE ns[k]]

\* The nodes of the subtree of n in document order.
RECURSIVE Preorder(_, _)
RECURSIVE PreorderAll(_, _)
Preorder(ns, n) == <<n>> \o PreorderAll(ns, ns[n].kids)
PreorderAll(ns, list) ==
    IF list = <<>> THEN <<>>
    ELSE Preorder(ns, list[1]) \o PreorderAll(ns, Tail(list))

\* The children of n as a slice, last child first.
childrenReversed(ns, n) == [k \in 1..Len(ns[n].kids) |-> ns[n].kids[Len(ns[n].kids) + 1 - k]]

\* The children of n as a slice.
children(ns, n) == ns[n].kids

\* ------------------------------------------------------------------ markup

\* Markup text is carried in parsed form: a forest is a node table of its
\* own whose top-level nodes have parent 0.  Rendering a node yields the
\* forest of its subtree and parsing a forest yields fresh nodes, which is
\* the exact round trip the parser and serializer provide.

\* html.Render(elem, node)
Render(ns, n) ==
    LET P == Preorder(ns, n)
    IN [k \in 1..Len(P) |->
          [ns[P[k]] EXCEPT
             !.kids = [j \in 1..Len(@) |-> PosIn(P, @[j])],
             !.parent = IF k = 1 THEN 0 ELSE PosIn(P, @)]]

\* bytes.Replace over rendered markup: every string the markup holds.
ReplaceMarkup(f, old, new) ==
    [k \in 1..Len(f) |->
        [f[k] EXCEPT
           !.data = Replace(@, old, new),
           !.attr = [j \in 1..Len(@) |->
                       Attribute(Replace(@[j].key, old, new), Replace(@[j].val, old, new))]]]

\* buf.Write(b): markup appended to markup.
WriteMarkup(f, g) ==
    f \o [k \in 1..Len(g) |->
            [g[k] EXCEPT
               !.kids = [j \in 1..Len(@) |-> @[j] + Len(f)],
               !.parent = IF @ = 0 THEN 0 ELSE @ + Len(f)]]

\* The top-level nodes of a forest, in order.
Tops(f) == SelectSeq([k \in 1..Len(f) |-> k], LAMBDA k : f[k].parent = 0)

\* The node table ns extended by the detached nodes parsed from forest f.
Graft(ns, f) ==
    ns \o [k \in 1..Len(f) |->
             [f[k] EXCEPT
                !.kids = [j \in 1..Len(@) |-> @[j] + Len(ns)],
                !.parent = IF @ = 0 THEN 0 ELSE @ + Len(ns)]]

\* The nodes parseNodes returns after Graft(ns, f).
Parsed(ns, f) == [k \in 1..Len(Tops(f)) |-> Tops(f)[k] + Len(ns)]

\* <b v-on:click="Hi">x</b>
MarkupB ==
    <<"<", "b", " ", "v", "-", "o", "n", ":", "c", "l", "i", "c", "k", "=",
      "\"", "H", "i", "\"", ">", "x", "<", "/", "b", ">">>

\* <b v-html="Msg"></b>
MarkupRec ==
    <<"<", "b", " ", "v", "-", "h", "t", "m", "l", "=", "\"", "M", "s", "g", "\"", ">",
      "<", "/", "b", ">">>

\* html.ParseFragment of a string in a div context: the markup strings the
\* contexts of this model hold, and plain text.
ParseFragment(s) ==
    IF s = MarkupRec
    THEN <<ElementNode(<<"b">>,
                       <<Attribute(<<"v", "-", "h", "t", "m", "l">>, <<"M", "s", "g">>)>>,
                       <<>>, 0)>>
    ELSE IF s = MarkupB
    THEN <<ElementNode(<<"b">>,
                       <<Attribute(vOn \o <<":", "c", "l", "i", "c", "k">>, <<"H", "i">>)>>,
                       <<2>>, 0),
           TextNode(<<"x">>, 1)>>
    ELSE IF s = <<>> THEN <<>>
    ELSE <<TextNode(s, 0)>>

\* ---------------------------------------------------------- attribute order

\* The attributes of attr whose key has the prefix, in their order.
WithPrefix(attr, prefix) == SelectSeq(attr, LAMBDA a : HasPrefix(a.key, prefix))

RECURSIVE Ordered(_, _)
Ordered(attr, prefixes) ==
    IF prefixes = <<>> THEN <<>>
    ELSE WithPrefix(attr, prefixes[1]) \o Ordered(attr, Tail(prefixes))

\* orderAttrs: the new value of node.Attr.
orderAttrs(attr) ==
    IF Len(attr) = 0 THEN attr
    ELSE Ordered(attr, attrOrder) \o SelectSeq(attr, LAMBDA a : ~HasPrefix(a.key, v))

\* A deleteAttr that takes the following attribute along.
deleteAttrTwo(attr, i) ==
    IF i < Len(attr) THEN RemoveAt(RemoveAt(attr, i), i) ELSE RemoveAt(attr, i)

\* deleteAttr: the new value of node.Attr.
deleteAttr(attr, i) == SubSeq(attr, 1, i - 1) \o SubSeq(attr, i + 1, Len(attr))


\* ---------------------------------------------------------------- mustache

\* html/template escaping, applied by the substitution engine to a value.
Escape(s) ==
    Replace(Replace(Replace(s, <<"&">>, <<"&", "a", "m", "p", ";">>),
                    <<"<">>, <<"&", "l", "t", ";">>),
            <<">">>, <<"&", "g", "t", ";">>)

\* mustache.Render(text, data): every {{ name }} is replaced by the escaped
\* value of data[name], by nothing when the name is missing; an unclosed
\* tag is an error.
RECURSIVE MustacheOk(_)
MustacheOk(s) ==
    LET i == Index(s, <<"{", "{">>)
    IN IF i = 0 THEN TRUE
       ELSE LET rest == SubSeq(s, i + 2, Len(s))
                j == Index(rest, <<"}", "}">>)
            IN j # 0 /\ MustacheOk(SubSeq(rest, j + 2, Len(rest)))

RECURSIVE MustacheRender(_, _)
MustacheRender(s, data) ==
    LET i == Index(s, <<"{", "{">>)
    IN IF i = 0 THEN s
       ELSE LET rest == SubSeq(s, i + 2, Len(s))
                j == Index(rest, <<"}", "}">>)
                name == TrimSpace(SubSeq(rest, 1, j - 1))
            IN SubSeq(s, 1, i - 1)
               \o (IF HasKey(data, name) THEN Escape(Sprintv(data[name])) ELSE <<>>)
               \o MustacheRender(SubSeq(rest, j + 2, Len(rest)), data)

\* ----------------------------------------------------------- subcomponents

EmptyMap == [k \in {} |-> Absent]

\* The one registered subcomponent: <card>, with the declared prop Title.
SubTag == <<"c", "a", "r", "d">>
SubProps == {<<"T", "i", "t", "l", "e">>}
SubTmpl ==
    <<ElementNode(<<"h">>, <<>>, <<2>>, 0),
      TextNode(<<"{", "{", "T", "i", "t", "l", "e", "}", "}">>, 1),
      ElementNode(<<"s">>, <<>>, <<>>, 0)>>

\* The nil *Comp.
NoSub == [ok |-> FALSE, declared |-> {}, props |-> EmptyMap]

\* comp.newSub(tag): a subcomponent with a fresh prop map, when registered.
newSub(tag) ==
    IF tag = SubTag THEN [ok |-> TRUE, declared |-> SubProps, props |-> EmptyMap]
    ELSE NoSub

\* sub.hasProp(prop); false on the nil *Comp.
hasProp(sub, prop) == sub.ok /\ prop \in sub.declared

\* newViewModel(sub).executeSub(): the nested execution of the
\* subcomponent's template against its props, run to completion; the
\* markup of the nested output, a placeholder root over the rendered nodes.
executeSub(sub) ==
    LET out == [k \in 1..Len(SubTmpl) |->
                  IF SubTmpl[k].type = "text"
                  THEN [SubTmpl[k] EXCEPT !.data = MustacheRender(@, sub.props)]
                  ELSE SubTmpl[k]]
        shifted == [k \in 1..Len(out) |->
                      [out[k] EXCEPT
                         !.kids = [j \in 1..Len(@) |-> @[j] + 1],
                         !.parent = @ + 1]]
    IN <<ElementNode(<<>>, <<>>, [k \in 1..Len(Tops(out)) |-> Tops(out)[k] + 1], 0)>>
       \o shifted

\* ------------------------------------------------------------------ errors

NoError == [kind |-> "none", arg |-> <<>>]
\* The error handed to must, which aborts the execution.
Error(kind, arg) == [kind |-> kind, arg |-> arg]

\* ---------------------------------------------------------------- handlers

\* callback.addEventListener(typ, handler)
addEventListener(ls, typ, handler) == Append(ls, [typ |-> typ, handler |-> handler])

\* executeAttrBind without the test for a false boolean.
executeAttrBindKeepFalse(ns, n, sub, key, value, data) ==
    LET field == Lookup(data, value)
        prop == Title(key)
    IN IF ~HasKey(data, value)
       THEN [err |-> Error("UnknownDataField", value), nodes |-> ns, sub |-> sub]
       ELSE IF hasProp(sub, prop)
       THEN [err |-> NoError, nodes |-> ns,
             sub |-> [sub EXCEPT !.props = Store(@, prop, field)]]
       ELSE [err |-> NoError,
             nodes |-> [ns EXCEPT ![n].attr = Append(@, Attribute(key, Sprintv(field)))],
             sub |-> sub]

\* executeAttrBind with the test for a false boolean before the prop test.
executeAttrBindFalseFirst(ns, n, sub, key, value, data) ==
    LET field == Lookup(data, value)
        prop == Title(key)
    IN IF ~HasKey(data, value)
       THEN [err |-> Error("UnknownDataField", value), nodes |-> ns, sub |-> sub]
       ELSE IF field.t = "bool" /\ ~field.b
       THEN [err |-> NoError, nodes |-> ns, sub |-> sub]
       ELSE IF hasProp(sub, prop)
       THEN [err |-> NoError, nodes |-> ns,
             sub |-> [sub EXCEPT !.props = Store(@, prop, field)]]
       ELSE [err |-> NoError,
             nodes |-> [ns EXCEPT ![n].attr = Append(@, Attribute(key, Sprintv(field)))],
             sub |-> sub]

\* executeAttrBind: the error raised, the node table and the subcomponent
\* after the call.
executeAttrBind(ns, n, sub, key, value, data) ==
    LET field == Lookup(data, value)
        prop == Title(key)
    IN IF ~HasKey(data, value)
       THEN [err |-> Error("UnknownDataField", value), nodes |-> ns, sub |-> sub]
       ELSE IF hasProp(sub, prop)
       THEN [err |-> NoError, nodes |-> ns,
             sub |-> [sub EXCEPT !.props = Store(@, prop, field)]]
       ELSE IF field.t = "bool" /\ ~field.b
       THEN [err |-> NoError, nodes |-> ns, sub |-> sub]
       ELSE [err |-> NoError,
             nodes |-> [ns EXCEPT ![n].attr = Append(@, Attribute(key, Sprintv(field)))],
             sub |-> sub]

\* The loop key with an id that is never advanced.
LoopKeyFixedId(name, id) == name \o Decimal(0)

\* The synthetic key of one loop iteration: fmt.Sprintf("%s%d", name, id).
LoopKey(name, id) == name \o Decimal(id)

\* buf after iterations i..n-1 of the loop of executeAttrFor.
RECURSIVE LoopBuf(_, _, _, _, _)
LoopBuf(elem, name, id, i, n) ==
    IF i >= n THEN <<>>
    ELSE WriteMarkup(ReplaceMarkup(elem, name, LoopKey(name, id + i)),
                     LoopBuf(elem, name, id, i + 1, n))

\* data after iterations i..n-1 of the loop of executeAttrFor over xs.
RECURSIVE LoopData(_, _, _, _, _)
LoopData(data, name, id, i, xs) ==
    IF i >= Len(xs) THEN data
    ELSE LoopData(Store(data, LoopKey(name, id + i), StrV(xs[i + 1])), name, id, i + 1, xs)

\* executeAttrFor: the error raised, the node table, the data context and
\* the id counter after the call, and the pair (next, modified) returned.
executeAttrFor(ns, n, value, data, id) ==
    LET vals == Split(value, <<"i", "n">>)
        name == TrimSpace(vals[1])
        field == TrimSpace(vals[2])
        slice == Lookup(data, field)
        elem == Render(ns, n)
        len == Len(slice.xs)
        buf == LoopBuf(elem, name, id, 0, len)
        grafted == Graft(ns, buf)
        parsed == Parsed(ns, buf)
        inserted == RemoveChild(InsertBefore(grafted, parsed, n), n)
        same == [nodes |-> ns, data |-> data, id |-> id, next |-> 0, modified |-> FALSE]
    IN IF Len(vals) < 2
       THEN [err |-> Error("IndexOutOfRange", value)] @@ same
       ELSE IF ~HasKey(data, field)
       THEN [err |-> Error("SliceNotFound", field)] @@ same
       ELSE IF slice.t # "seq"
       THEN [err |-> Error("NotSequence", field)] @@ same
       ELSE IF parsed = <<>>
       THEN [err |-> Error("IndexOutOfRange", field), nodes |-> inserted,
             data |-> data, id |-> id, next |-> 0, modified |-> FALSE]
       ELSE [err |-> NoError, nodes |-> inserted,
             data |-> LoopData(data, name, id, 0, slice.xs), id |-> id + len,
             next |-> parsed[1], modified |-> TRUE]

\* executeAttrHtml without the test for an absent field.
executeAttrHtmlNoLookupTest(ns, n, field, data) ==
    LET value == Lookup(data, field)
        html == ParseFragment(value.s)
    IN IF HasKey(data, field) /\ value.t # "str"
       THEN [err |-> Error("TypeMismatch", field), nodes |-> ns]
       ELSE [err |-> NoError, nodes |-> AppendChild(Graft(ns, html), n, Parsed(ns, html))]

\* executeAttrHtml: the error raised and the node table after the call.
executeAttrHtml(ns, n, field, data) ==
    LET value == Lookup(data, field)
        html == ParseFragment(value.s)
    IN IF ~HasKey(data, field)
       THEN [err |-> Error("UnknownDataField", field), nodes |-> ns]
       ELSE IF value.t # "str"
       THEN [err |-> Error("TypeMismatch", field), nodes |-> ns]
       ELSE [err |-> NoError, nodes |-> AppendChild(Graft(ns, html), n, Parsed(ns, html))]

\* executeAttrIf without the type assertion: any present field keeps the node.
executeAttrIfAnyPresent(ns, n, field, data) ==
    IF HasKey(data, field)
    THEN [nodes |-> ns, next |-> 0, modified |-> FALSE]
    ELSE [nodes |-> RemoveChild(ns, n), next |-> NextSibling(ns, n), modified |-> TRUE]

\* executeAttrIf reading node.NextSibling after the removal.
executeAttrIfNextAfterRemove(ns, n, field, data) ==
    IF HasKey(data, field) /\ data[field].t = "bool" /\ data[field].b
    THEN [nodes |-> ns, next |-> 0, modified |-> FALSE]
    ELSE [nodes |-> RemoveChild(ns, n),
          next |-> NextSibling(RemoveChild(ns, n), n), modified |-> TRUE]

\* executeAttrIf: the node table after the call and the pair (next,
\* modified) returned.
executeAttrIf(ns, n, field, data) ==
    IF HasKey(data, field) /\ data[field].t = "bool" /\ data[field].b
    THEN [nodes |-> ns, next |-> 0, modified |-> FALSE]
    ELSE [nodes |-> RemoveChild(ns, n), next |-> NextSibling(ns, n), modified |-> TRUE]

\* executeAttrModel: the error raised, the node table and the registered
\* listeners after the call.
executeAttrModel(ns, n, field, data, ls) ==
    LET typ == <<"i", "n", "p", "u", "t">>
        marked == [ns EXCEPT ![n].attr = Append(@, Attribute(typ, field))]
        heard == addEventListener(ls, typ, "vModel")
        value == Lookup(data, field)
    IN IF ~HasKey(data, field)
       THEN [err |-> Error("UnknownDataField", field), nodes |-> marked, listeners |-> heard]
       ELSE IF value.t # "str"
       THEN [err |-> Error("TypeMismatch", field), nodes |-> marked, listeners |-> heard]
       ELSE [err |-> NoError,
             nodes |-> [marked EXCEPT
                          ![n].attr = Append(@, Attribute(<<"v", "a", "l", "u", "e">>, value.s))],
             listeners |-> heard]

\* executeAttrOn: the node table and the registered listeners after the call.
executeAttrOn(ns, n, typ, method, ls) ==
    [nodes |-> [ns EXCEPT ![n].attr = Append(@, Attribute(typ, method))],
     listeners |-> addEventListener(ls, typ, "vOn")]


\* --------------------------------------------------------------- templates

sItem == <<"I", "t", "e", "m">>
sItems == <<"I", "t", "e", "m", "s">>
sXs == <<"X", "s">>
sOk == <<"O", "k">>
sMsg == <<"M", "s", "g">>
sHi == <<"H", "i">>
sIn == <<" ", "i", "n", " ">>
sClick == <<":", "c", "l", "i", "c", "k">>

Braces(name) == <<"{", "{">> \o name \o <<"}", "}">>

\* The attributes the generated templates are written with.
AttrPool ==
    { Attribute(vFor, sItem \o sIn \o sItems),
      Attribute(vIf, sOk),
      Attribute(vModel, sMsg),
      Attribute(vOn \o sClick, sHi),
      Attribute(vBind \o <<":", "x">>, sOk),
      Attribute(vHtml, sMsg),
      Attribute(<<"v", "-", "s", "h", "o", "w">>, sOk),
      Attribute(<<"v", "-", "o", "n", "c", "e">>, <<>>),
      Attribute(<<"c", "l", "a", "s", "s">>, <<"c">>) }

\* The attributes the generated subcomponent placeholders are written with.
SubPool ==
    { Attribute(vBind \o <<":", "t", "i", "t", "l", "e">>, sMsg),
      Attribute(vBind \o <<":", "t", "i", "t", "l", "e">>, sOk),
      Attribute(vBind \o <<":", "x">>, sOk),
      Attribute(<<"c", "l", "a", "s", "s">>, <<"c">>) }

\* The attribute lists of at most n attributes of pool with distinct keys
\* (the parser keeps the first of two attributes with one key).
AttrLists(pool, n) ==
    UNION { { s \in [1..k -> pool] :
                \A i, j \in 1..k : i # j => s[i].key # s[j].key } : k \in 0..n }

\* <tag attrs>{{Item}} {{Msg}}</tag><q></q>
OneNode(tag, attrs) ==
    <<ElementNode(tag, attrs, <<2>>, 0),
      TextNode(Braces(sItem) \o <<" ">> \o Braces(sMsg), 1),
      ElementNode(<<"q">>, <<>>, <<>>, 0)>>

\* The attribute list of the ordering example of the specification.
ExampleAttrs ==
    <<Attribute(vBind \o <<":", "x">>, sOk),
      Attribute(vIf, sOk),
      Attribute(vOn \o sClick, sHi),
      Attribute(vFor, sItem \o sIn \o sItems),
      Attribute(vHtml, sMsg),
      Attribute(vModel, sMsg)>>

\* <li v-for="Item in Items">{{Item}}</li><q></q>
LoopTmpl ==
    <<ElementNode(<<"l", "i">>, <<Attribute(vFor, sItem \o sIn \o sItems)>>, <<2>>, 0),
      TextNode(Braces(sItem), 1),
      ElementNode(<<"q">>, <<>>, <<>>, 0)>>

\* <i v-for="A1 in Items"></i><i v-for="A in Items"></i>
SiblingLoopsTmpl ==
    <<ElementNode(<<"i">>, <<Attribute(vFor, <<"A", "1">> \o sIn \o sItems)>>, <<>>, 0),
      ElementNode(<<"i">>, <<Attribute(vFor, <<"A">> \o sIn \o sItems)>>, <<>>, 0)>>

\* <ul v-for="Item in Items"><li v-for="Item in Xs">{{Item}}</li></ul>
NestedLoopsTmpl ==
    <<ElementNode(<<"u", "l">>, <<Attribute(vFor, sItem \o sIn \o sItems)>>, <<2>>, 0),
      ElementNode(<<"l", "i">>, <<Attribute(vFor, sItem \o sIn \o sXs)>>, <<3>>, 1),
      TextNode(Braces(sItem), 2)>>

\* <ul v-for="Item in Items"><li v-for="Item in Items"></li></ul>
NestedSameFieldTmpl ==
    <<ElementNode(<<"u", "l">>, <<Attribute(vFor, sItem \o sIn \o sItems)>>, <<2>>, 0),
      ElementNode(<<"l", "i">>, <<Attribute(vFor, sItem \o sIn \o sItems)>>, <<>>, 1)>>

\* <p v-on:v-if="Ok">{{Item}} {{Msg}}</p><q></q>: an event named v-if.
RescanTmpl ==
    OneNode(<<"p">>, <<Attribute(vOn \o <<":">> \o vIf, sOk)>>)

\* <p v-html="Msg"> </p><card v-bind:title="Msg"></card>{{Msg}}
MixedTmpl ==
    <<ElementNode(<<"p">>, <<Attribute(vHtml, sMsg)>>, <<2>>, 0),
      TextNode(<<" ">>, 1),
      ElementNode(SubTag, <<Attribute(vBind \o <<":", "t", "i", "t", "l", "e">>, sMsg)>>, <<>>, 0),
      TextNode(Braces(sMsg), 0)>>

\* The data context with the three fields, each left out when Absent.
Context(ok, msg, items) ==
    LET present == {p \in {<<sOk, ok>>, <<sMsg, msg>>, <<sItems, items>>,
                           <<sXs, SeqV(<<<<"x">>, <<"y">>>>)>>} : p[2] # Absent}
    IN [k \in {p[1] : p \in present} |-> (CHOOSE p \in present : p[1] = k)[2]]

\* A slice of k one-letter strings.
Slice(k) == SeqV([j \in 1..k |-> <<LowerLetters[j]>>])

OkValues == {Absent, BoolV(TRUE), BoolV(FALSE), StrV(<<"y">>)}
MsgValues == {Absent, StrV(<<"h", "i">>), StrV(MarkupB), BoolV(TRUE)}
ItemsValues == {Absent, Slice(0), Slice(2)}
LongItemsValues == {Absent, BoolV(TRUE)} \cup {Slice(k) : k \in 0..MaxItems}

SmallContexts ==
    {Context(ok, msg, items) : ok \in OkValues, msg \in MsgValues, items \in ItemsValues}

\* The executions modelled: a template (in parsed form) and a data context.
Scenarios ==
    [tmpl : {OneNode(<<"p">>, attrs) : attrs \in AttrLists(AttrPool, MaxAttrs)},
     data : SmallContexts]
    \cup
    [tmpl : {OneNode(SubTag, attrs) : attrs \in AttrLists(SubPool, MaxAttrs)},
     data : SmallContexts]
    \cup
    [tmpl : {OneNode(<<"p">>, ExampleAttrs), RescanTmpl, MixedTmpl}, data : SmallContexts]
    \cup
    [tmpl : {MixedTmpl},
     data : {Context(ok, StrV(m), Absent) : ok \in OkValues, m \in {MarkupRec, Braces(sOk)}}]
    \cup
    [tmpl : {LoopTmpl, SiblingLoopsTmpl, NestedLoopsTmpl, NestedSameFieldTmpl},
     data : {Context(BoolV(TRUE), StrV(<<"h", "i">>), items) : items \in LongItemsValues}]

\* parseNode: the placeholder root, node 1, over the parsed template.
parseNode(tmpl) ==
    LET root == <<ElementNode(<<>>, <<>>, <<>>, 0)>>
    IN AppendChild(Graft(root, tmpl), 1, Parsed(root, tmpl))

\* ------------------------------------------------------------------- state

VARIABLES
    comp,       \* the component: its template
    data,       \* the data context of the execution
    nodes,      \* the node table of the tree being executed
    id,         \* tmpl.id
    stack,      \* the executeElement calls in progress, innermost last
    phase,      \* "init", "element", "text", "done" or "failed"
    err,        \* the error that aborted the execution
    listeners,  \* the handlers registered with the event subsystem
    todo,       \* the nodes the text pass has still to visit, next first
    ret,        \* the last directive dispatched and what it returned
    hist        \* what the execution has done so far (see NoHist)

vars == <<comp, data, nodes, id, stack, phase, err, listeners, todo, ret, hist>>

\* A call executeElement(node): where it stands, the loop index i (from 1),
\* the subcomponent of the node and the cursor of the children loop.
Frame(n) == [node |-> n, pc |-> "enter", i |-> 1, sub |-> NoSub, child |-> 0]

NoRet == [op |-> "none", node |-> 0, next |-> 0, modified |-> FALSE]

\* The record of an execution: the nodes executeElement was called on, in
\* order; the nodes a bind, model or on handler has run on; the nodes a
\* for or if handler has returned modified for; the nodes
\* spliced in from nested executions and the placeholders they replaced;
\* the nodes executeText was called on, in order; and the text nodes
\* rendered by the mustache engine, each with the execution that rendered
\* it ("parent" for this one, "sub" for a nested one).
NoHist ==
    [calls |-> <<>>, handled |-> {}, signalled |-> {}, spliced |-> {}, placeholders |-> {},
     visits |-> <<>>, rendered |-> <<>>]

\* newTemplate(comp), before execute is called.
Init ==
    /\ \E sc \in Scenarios :
         /\ comp = [tmpl |-> sc.tmpl]
         /\ data = sc.data
    /\ nodes = <<>>
    /\ id = 0
    /\ stack = <<>>
    /\ phase = "init"
    /\ err = NoError
    /\ listeners = <<>>
    /\ todo = <<>>
    /\ ret = NoRet
    /\ hist = NoHist

top == stack[Len(stack)]
curNode == top.node
curAttr == nodes[curNode].attr[top.i]
\* strings.Split(attr.Key, ":")
curVals == Split(curAttr.key, <<":">>)
curTyp == curVals[1]
curPart == IF Len(curVals) > 1 THEN curVals[2] ELSE <<>>

\* The stack after the innermost call returns next to its caller.
Returned(next) ==
    IF Len(stack) = 1 THEN <<>>
    ELSE [SubSeq(stack, 1, Len(stack) - 1) EXCEPT ![Len(stack) - 1].child = next]

\* The innermost call returns next; the outermost call returns to execute,
\* which starts the text pass at the root.
Return(next) ==
    /\ stack' = Returned(next)
    /\ phase' = IF Len(stack) = 1 THEN "text" ELSE "element"
    /\ todo' = IF Len(stack) = 1 THEN <<1>> ELSE todo

\* must(err) with a non-nil error: the execution is aborted.
must(e) ==
    /\ err' = e
    /\ phase' = "failed"
    /\ stack' = <<>>
    /\ todo' = <<>>

\* The loop of executeElement stands at a directive attribute.
AtDirective(typ) ==
    /\ phase = "element"
    /\ stack # <<>>
    /\ top.pc = "attrs"
    /\ top.i <= Len(nodes[curNode].attr)
    /\ HasPrefix(curAttr.key, v)
    /\ curTyp = typ

\* The node table after deleteAttr(node, i).
Stripped == [nodes EXCEPT ![curNode].attr = deleteAttr(@, top.i)]


\* ----------------------------------------------------------------- actions

\* execute, lines 38-40: the template is parsed and executeElement is
\* called on the root.
Execute ==
    /\ phase = "init"
    /\ nodes' = parseNode(comp.tmpl)
    /\ stack' = <<Frame(1)>>
    /\ phase' = "element"
    /\ UNCHANGED <<comp, data, id, err, listeners, todo, ret>>
    /\ hist' = [hist EXCEPT !.calls = <<1>>]

\* executeElement, lines 50-52: a text node is left to the text pass.
ExecuteElementText ==
    /\ phase = "element"
    /\ stack # <<>>
    /\ top.pc = "enter"
    /\ nodes[curNode].type # "element"
    /\ Return(NextSibling(nodes, curNode))
    /\ UNCHANGED <<comp, data, nodes, id, err, listeners, ret, hist>>

\* executeElement, lines 55-58: the subcomponent is looked up and the
\* attributes are ordered.
ExecuteElementEnter ==
    /\ phase = "element"
    /\ stack # <<>>
    /\ top.pc = "enter"
    /\ nodes[curNode].type = "element"
    /\ nodes' = [nodes EXCEPT ![curNode].attr = orderAttrs(@)]
    /\ stack' = [stack EXCEPT ![Len(stack)] =
                    [@ EXCEPT !.pc = "attrs", !.i = 1, !.sub = newSub(nodes[curNode].data)]]
    /\ UNCHANGED <<comp, data, id, phase, err, listeners, todo, ret, hist>>

\* executeElement, lines 61-63: an attribute that is no directive is passed.
SkipAttr ==
    /\ phase = "element"
    /\ stack # <<>>
    /\ top.pc = "attrs"
    /\ top.i <= Len(nodes[curNode].attr)
    /\ ~HasPrefix(curAttr.key, v)
    /\ stack' = [stack EXCEPT ![Len(stack)].i = @ + 1]
    /\ UNCHANGED <<comp, data, nodes, id, phase, err, listeners, todo, ret, hist>>

\* executeElement, lines 64-66, and executeAttr with typ v-bind.
ExecuteAttrBind ==
    /\ AtDirective(vBind)
    /\ LET r == executeAttrBind(Stripped, curNode, top.sub, curPart, curAttr.val, data)
       IN /\ nodes' = r.nodes
          /\ IF r.err # NoError
             THEN must(r.err)
             ELSE /\ stack' = [stack EXCEPT ![Len(stack)].sub = r.sub]
                  /\ UNCHANGED <<phase, err, todo>>
    /\ ret' = [op |-> "bind", node |-> curNode, next |-> 0, modified |-> FALSE]
    /\ UNCHANGED <<comp, data, id, listeners>>
    /\ hist' = [hist EXCEPT !.handled = @ \cup {curNode}]

\* executeElement, lines 64-70, and executeAttr with typ v-for.
ExecuteAttrFor ==
    /\ AtDirective(vFor)
    /\ LET r == executeAttrFor(Stripped, curNode, curAttr.val, data, id)
       IN /\ nodes' = r.nodes
          /\ data' = r.data
          /\ id' = r.id
          /\ ret' = [op |-> "for", node |-> curNode, next |-> r.next, modified |-> r.modified]
          /\ IF r.err # NoError
             THEN must(r.err)
             ELSE /\ Return(r.next)
                  /\ UNCHANGED err
          /\ hist' = [hist EXCEPT !.signalled =
                        IF r.err = NoError /\ r.modified THEN @ \cup {curNode} ELSE @]
    /\ UNCHANGED <<comp, listeners>>

\* executeElement, lines 64-66, and executeAttr with typ v-html.
ExecuteAttrHtml ==
    /\ AtDirective(vHtml)
    /\ Len(stack) <= MaxDepth
    /\ LET r == executeAttrHtml(Stripped, curNode, curAttr.val, data)
       IN /\ nodes' = r.nodes
          /\ IF r.err # NoError
             THEN must(r.err)
             ELSE UNCHANGED <<stack, phase, err, todo>>
    /\ ret' = [op |-> "html", node |-> curNode, next |-> 0, modified |-> FALSE]
    /\ UNCHANGED <<comp, data, id, listeners, hist>>

\* executeElement, lines 64-70, and executeAttr with typ v-if.
ExecuteAttrIf ==
    /\ AtDirective(vIf)
    /\ LET r == executeAttrIf(Stripped, curNode, curAttr.val, data)
       IN /\ nodes' = r.nodes
          /\ ret' = [op |-> "if", node |-> curNode, next |-> r.next, modified |-> r.modified]
          /\ IF r.modified
             THEN Return(r.next)
             ELSE UNCHANGED <<stack, phase, todo>>
          /\ hist' = [hist EXCEPT !.signalled = IF r.modified THEN @ \cup {curNode} ELSE @]
    /\ UNCHANGED <<comp, data, id, err, listeners>>

\* executeElement, lines 64-66, and executeAttr with typ v-model.
ExecuteAttrModel ==
    /\ AtDirective(vModel)
    /\ LET r == executeAttrModel(Stripped, curNode, curAttr.val, data, listeners)
       IN /\ nodes' = r.nodes
          /\ listeners' = r.listeners
          /\ IF r.err # NoError
             THEN must(r.err)
             ELSE UNCHANGED <<stack, phase, err, todo>>
    /\ ret' = [op |-> "model", node |-> curNode, next |-> 0, modified |-> FALSE]
    /\ UNCHANGED <<comp, data, id>>
    /\ hist' = [hist EXCEPT !.handled = @ \cup {curNode}]

\* executeElement, lines 64-66, and executeAttr with typ v-on.
ExecuteAttrOn ==
    /\ AtDirective(vOn)
    /\ LET r == executeAttrOn(Stripped, curNode, curPart, curAttr.val, listeners)
       IN /\ nodes' = r.nodes
          /\ listeners' = r.listeners
    /\ ret' = [op |-> "on", node |-> curNode, next |-> 0, modified |-> FALSE]
    /\ UNCHANGED <<comp, data, id, stack, phase, err, todo>>
    /\ hist' = [hist EXCEPT !.handled = @ \cup {curNode}]

\* executeElement, lines 64-66, and the default case of executeAttr.
ExecuteAttrUnknown ==
    /\ phase = "element"
    /\ stack # <<>>
    /\ top.pc = "attrs"
    /\ top.i <= Len(nodes[curNode].attr)
    /\ HasPrefix(curAttr.key, v)
    /\ curTyp \notin {vBind, vFor, vHtml, vIf, vModel, vOn}
    /\ nodes' = Stripped
    /\ must(Error("UnknownDirective", curTyp))
    /\ ret' = [op |-> "unknown", node |-> curNode, next |-> 0, modified |-> FALSE]
    /\ UNCHANGED <<comp, data, id, listeners, hist>>

\* executeElement, lines 75-86: the nested output replaces the placeholder.
ExecuteSubcomponent ==
    /\ phase = "element"
    /\ stack # <<>>
    /\ top.pc = "attrs"
    /\ top.i > Len(nodes[curNode].attr)
    /\ top.sub.ok
    /\ LET out == executeSub(top.sub)
           grafted == Graft(nodes, out)
           subNode == Parsed(nodes, out)[1]
           kids == children(grafted, subNode)
           detached == [k \in 1..Len(grafted) |->
                          IF k = subNode THEN [grafted[k] EXCEPT !.kids = <<>>]
                          ELSE IF PosIn(kids, k) # 0 THEN [grafted[k] EXCEPT !.parent = 0]
                          ELSE grafted[k]]
           spliced == InsertBefore(detached, kids, curNode)
       IN /\ nodes' = RemoveChild(spliced, curNode)
          /\ Return(NextSibling(spliced, curNode))
    /\ UNCHANGED <<comp, data, id, err, listeners, ret>>
    /\ LET out == executeSub(top.sub)
           fresh == {Len(nodes) + k : k \in 2..Len(out)}
           texts == SelectSeq([j \in 1..(Len(out) - 1) |-> j + 1],
                              LAMBDA k : out[k].type = "text" /\ TrimSpace(SubTmpl[k - 1].data) # <<>>)
       IN hist' = [hist EXCEPT
                     !.spliced = @ \cup fresh,
                     !.placeholders = @ \cup {curNode},
                     !.rendered = @ \o [j \in 1..Len(texts) |->
                                          [node |-> Len(nodes) + texts[j], ctx |-> "sub"]]]

\* executeElement, line 89: the children loop starts at the first child.
ExecuteChildren ==
    /\ phase = "element"
    /\ stack # <<>>
    /\ top.pc = "attrs"
    /\ top.i > Len(nodes[curNode].attr)
    /\ ~top.sub.ok
    /\ stack' = [stack EXCEPT ![Len(stack)] =
                    [@ EXCEPT !.pc = "children", !.child = FirstChild(nodes, curNode)]]
    /\ UNCHANGED <<comp, data, nodes, id, phase, err, listeners, todo, ret, hist>>

\* executeElement, line 90: executeElement is called on the child.
ExecuteChild ==
    /\ phase = "element"
    /\ stack # <<>>
    /\ top.pc = "children"
    /\ top.child # 0
    /\ stack' = Append(stack, Frame(top.child))
    /\ UNCHANGED <<comp, data, nodes, id, phase, err, listeners, todo, ret>>
    /\ hist' = [hist EXCEPT !.calls = Append(@, top.child)]

\* executeElement, line 93: the children are exhausted.
ExecuteElementReturn ==
    /\ phase = "element"
    /\ stack # <<>>
    /\ top.pc = "children"
    /\ top.child = 0
    /\ Return(NextSibling(nodes, curNode))
    /\ UNCHANGED <<comp, data, nodes, id, err, listeners, ret, hist>>

\* executeText on the next node of the text pass.
ExecuteText ==
    /\ phase = "text"
    /\ todo # <<>>
    /\ LET n == Head(todo)
       IN IF nodes[n].type = "text"
          THEN IF TrimSpace(nodes[n].data) = <<>>
               THEN /\ todo' = Tail(todo)
                    /\ UNCHANGED <<nodes, phase, err, stack>>
               ELSE IF ~MustacheOk(nodes[n].data)
               THEN /\ must(Error("InterpolationError", nodes[n].data))
                    /\ UNCHANGED nodes
               ELSE /\ nodes' = [nodes EXCEPT ![n].data = MustacheRender(@, data)]
                    /\ todo' = Tail(todo)
                    /\ UNCHANGED <<phase, err, stack>>
          ELSE /\ todo' = nodes[n].kids \o Tail(todo)
               /\ UNCHANGED <<nodes, phase, err, stack>>
    /\ UNCHANGED <<comp, data, id, listeners, ret>>
    /\ LET n == Head(todo)
           renders == nodes[n].type = "text" /\ TrimSpace(nodes[n].data) # <<>>
                      /\ MustacheOk(nodes[n].data)
       IN hist' = [hist EXCEPT
                     !.visits = Append(@, n),
                     !.rendered = IF renders THEN Append(@, [node |-> n, ctx |-> "parent"]) ELSE @]

\* execute, line 43: the tree is returned.
ExecuteReturn ==
    /\ phase = "text"
    /\ todo = <<>>
    /\ phase' = "done"
    /\ UNCHANGED <<comp, data, nodes, id, stack, err, listeners, todo, ret, hist>>

Next ==
    \/ Execute
    \/ ExecuteElementText
    \/ ExecuteElementEnter
    \/ SkipAttr
    \/ ExecuteAttrBind
    \/ ExecuteAttrFor
    \/ ExecuteAttrHtml
    \/ ExecuteAttrIf
    \/ ExecuteAttrModel
    \/ ExecuteAttrOn
    \/ ExecuteAttrUnknown
    \/ ExecuteSubcomponent
    \/ ExecuteChildren
    \/ ExecuteChild
    \/ ExecuteElementReturn
    \/ ExecuteText
    \/ ExecuteReturn

Spec == Init /\ [][Next]_vars


\* ------------------------------------------------------------------ claims

Range(s) == {s[k] : k \in 1..Len(s)}

\* executeElement is about to order the attributes of an element.
AtEnter ==
    /\ phase = "element"
    /\ stack # <<>>
    /\ top.pc = "enter"
    /\ nodes[curNode].type = "element"

\* The place of a key in the fixed precedence: 1..6 for the six known
\* prefixes, 7 for a key that is no directive, 0 for any other v- key.
Rank(key) ==
    IF HasPrefix(key, <<"v", "-", "f", "o", "r">>) THEN 1
    ELSE IF HasPrefix(key, <<"v", "-", "i", "f">>) THEN 2
    ELSE IF HasPrefix(key, <<"v", "-", "m", "o", "d", "e", "l">>) THEN 3
    ELSE IF HasPrefix(key, <<"v", "-", "o", "n">>) THEN 4
    ELSE IF HasPrefix(key, <<"v", "-", "b", "i", "n", "d">>) THEN 5
    ELSE IF HasPrefix(key, <<"v", "-", "h", "t", "m", "l">>) THEN 6
    ELSE IF ~HasPrefix(key, <<"v", "-">>) THEN 7
    ELSE 0

\* [for, if, model, on:click, bind:x, html]
ExampleOrdered ==
    <<ExampleAttrs[4], ExampleAttrs[2], ExampleAttrs[6],
      ExampleAttrs[3], ExampleAttrs[1], ExampleAttrs[5]>>

\* C1: whenever executeElement orders the attributes of a node, the new
\* list holds the attributes with prefix v-for, then v-if, v-model, v-on,
\* v-bind, v-html, then the attributes that are no directives; every input
\* attribute of these seven groups is kept, in its original relative order
\* inside its group; and [bind:x, if, on:click, for, html, model] becomes
\* [for, if, model, on:click, bind:x, html].
C1_Precedence ==
    [][AtEnter =>
         LET a == nodes[curNode].attr
             b == nodes'[curNode].attr
         IN /\ \A i, j \in 1..Len(b) :
                 i < j => /\ Rank(b[i].key) >= 1
                          /\ Rank(b[i].key) <= Rank(b[j].key)
                          /\ PosIn(a, b[i]) # 0
                          /\ PosIn(a, b[j]) # 0
                          /\ Rank(b[i].key) = Rank(b[j].key) => PosIn(a, b[i]) < PosIn(a, b[j])
            /\ \A x \in Range(a) : Rank(x.key) >= 1 => x \in Range(b)
            /\ a = ExampleAttrs => b = ExampleOrdered]_vars

\* The example list has just been ordered.
C1_Witness ==
    /\ phase = "element"
    /\ stack # <<>>
    /\ top.pc = "attrs"
    /\ top.i = 1
    /\ comp.tmpl = OneNode(<<"p">>, ExampleAttrs)
    /\ nodes[curNode].attr = ExampleOrdered

\* C2: ordering neither adds nor removes attributes: the new list is a
\* permutation of the old one (an unknown v- key included), and the
\* attributes outside the six known groups keep their relative order.
C2_Permutation ==
    [][AtEnter =>
         LET a == nodes[curNode].attr
             b == nodes'[curNode].attr
         IN /\ Len(b) = Len(a)
            /\ Range(b) = Range(a)
            /\ \A i, j \in 1..Len(a) :
                 (i < j /\ Rank(a[i].key) \in {0, 7} /\ Rank(a[j].key) \in {0, 7})
                    => PosIn(b, a[i]) < PosIn(b, a[j])]_vars

\* The loop of executeElement stands at a v-for attribute whose field is
\* bound to a slice.
ForName == TrimSpace(Split(curAttr.val, <<"i", "n">>)[1])
ForField == TrimSpace(Split(curAttr.val, <<"i", "n">>)[2])
AtForOver(len) ==
    /\ AtDirective(vFor)
    /\ Len(Split(curAttr.val, <<"i", "n">>)) >= 2
    /\ HasKey(data, ForField)
    /\ data[ForField].t = "seq"
    /\ Len(data[ForField].xs) = len

\* C3: a For step over a slice of n >= 1 elements puts exactly n fresh
\* nodes at the place of the node among its parent's children, in index
\* order, and detaches the node; clone i is the node's markup with the loop
\* variable replaced by the key <var><id+i>, which the data context then
\* binds to element i; the step reports a structural change and the caller
\* resumes at the first clone.
C3_ForExpands ==
    [][\A n \in 1..(MaxItems + 1) :
         AtForOver(n) =>
           LET p == nodes[curNode].parent
               kids == nodes[p].kids
               k == PosIn(kids, curNode)
               clones == SubSeq(nodes'[p].kids, k, k + n - 1)
               xs == data[ForField].xs
               key(i) == ForName \o Decimal(id + i - 1)
               elem == [nodes EXCEPT ![curNode].attr = RemoveAt(@, top.i)]
           IN /\ err' = NoError
              /\ Len(nodes'[p].kids) = Len(kids) - 1 + n
              /\ SubSeq(nodes'[p].kids, 1, k - 1) = SubSeq(kids, 1, k - 1)
              /\ SubSeq(nodes'[p].kids, k + n, Len(kids) - 1 + n) = SubSeq(kids, k + 1, Len(kids))
              /\ nodes'[curNode].parent = 0
              /\ \A i \in 1..n :
                   /\ clones[i] > Len(nodes)
                   /\ nodes'[clones[i]].parent = p
                   /\ \A j \in 1..n : i # j => clones[i] # clones[j]
                   /\ Render(nodes', clones[i]) = ReplaceMarkup(Render(elem, curNode), ForName, key(i))
                   /\ HasKey(data', key(i))
                   /\ data'[key(i)] = StrV(xs[i])
              /\ ret'.op = "for" /\ ret'.modified /\ ret'.next = clones[1]
              /\ Len(stack') = Len(stack) - 1
              /\ stack'[Len(stack')].child = clones[1]
              /\ stack'[Len(stack')].pc = "children"]_vars

\* A For step over two or more elements has just returned its first clone.
C3_Witness ==
    /\ ret.op = "for"
    /\ ret.modified
    /\ stack # <<>>
    /\ top.child = ret.next
    /\ Len(nodes[top.node].kids) >= 3
    /\ nodes[ret.next].data = <<"l", "i">>
    /\ nodes[nodes[ret.next].kids[1]].data = <<"{", "{", "I", "t", "e", "m", "0", "}", "}">>

\* C4: a For step over a slice of zero elements raises no error: the node
\* is detached, no node is inserted, a structural change is reported and
\* the caller resumes at the node's former next sibling.
C4_EmptyFor ==
    [][AtForOver(0) =>
         LET p == nodes[curNode].parent
         IN /\ err' = NoError
            /\ phase' # "failed"
            /\ nodes'[curNode].parent = 0
            /\ nodes'[p].kids = RemoveAt(nodes[p].kids, PosIn(nodes[p].kids, curNode))
            /\ Len(nodes') = Len(nodes)
            /\ ret'.modified
            /\ ret'.next = NextSibling(nodes, curNode)]_vars

\* C5: an If step on a field that is present and boolean true changes
\* nothing but the consumed v-if attribute, reports no structural change
\* and leaves the loop of executeElement on the same node, at the attribute
\* that follows; on a field that is false, absent or no boolean it detaches
\* the node from its parent, keeps its children, reports a structural
\* change and returns the node's former next sibling to the caller.
C5_If ==
    [][AtDirective(vIf) =>
         LET field == curAttr.val
             p == nodes[curNode].parent
         IN IF HasKey(data, field) /\ data[field] = BoolV(TRUE)
            THEN /\ nodes' = [nodes EXCEPT ![curNode].attr = RemoveAt(@, top.i)]
                 /\ ~ret'.modified
                 /\ stack' = stack
                 /\ phase' = "element"
                 /\ err' = NoError
            ELSE /\ nodes'[curNode].parent = 0
                 /\ nodes'[curNode].kids = nodes[curNode].kids
                 /\ nodes'[p].kids = RemoveAt(nodes[p].kids, PosIn(nodes[p].kids, curNode))
                 /\ ret'.modified
                 /\ ret'.next = NextSibling(nodes, curNode)
                 /\ Len(stack') = Len(stack) - 1
                 /\ stack'[Len(stack')].child = NextSibling(nodes, curNode)
                 /\ err' = NoError]_vars

\* An If step has removed a node whose field is false and that had a next
\* sibling, and the caller stands at that sibling.
C5_Witness ==
    /\ ret.op = "if"
    /\ ret.modified
    /\ ret.next # 0
    /\ HasKey(data, sOk)
    /\ data[sOk] = BoolV(FALSE)
    /\ nodes[ret.node].parent = 0
    /\ stack # <<>>
    /\ top.child = ret.next


KnownKinds == {vBind, vFor, vHtml, vIf, vModel, vOn}

\* C6 as claimed: a bind, if, html or model step on a field the data
\* context lacks aborts the execution with an error that carries the field
\* name.
C6_AbsentFieldFails ==
    [][\A typ \in {vBind, vIf, vHtml, vModel} :
         (AtDirective(typ) /\ ~HasKey(data, curAttr.val))
            => /\ phase' = "failed"
               /\ err'.kind # "none"
               /\ err'.arg = curAttr.val]_vars

\* C6: a bind, html or model step on a field the data context lacks aborts
\* the execution with the unknown-field error carrying the field name, and
\* an aborted execution never returns a tree; an if step on such a field
\* raises no error and removes the node.
C6_AbsentFieldFailsExceptIf ==
    [][/\ \A typ \in {vBind, vHtml, vModel} :
            (AtDirective(typ) /\ ~HasKey(data, curAttr.val))
               => /\ phase' = "failed"
                  /\ err' = [kind |-> "UnknownDataField", arg |-> curAttr.val]
       /\ (AtDirective(vIf) /\ ~HasKey(data, curAttr.val))
            => /\ phase' # "failed"
               /\ err' = NoError
               /\ nodes'[curNode].parent = 0
               /\ ret'.modified
       /\ phase = "failed" => phase' = "failed"]_vars

\* A bind step has aborted the execution on the absent field Ok.
C6_Witness ==
    /\ phase = "failed"
    /\ ret.op = "bind"
    /\ ~HasKey(data, sOk)
    /\ err = [kind |-> "UnknownDataField", arg |-> sOk]

\* The attribute is a directive of none of the six kinds.
IsUnknownDirective(a) ==
    /\ HasPrefix(a.key, <<"v", "-">>)
    /\ Split(a.key, <<":">>)[1] \notin KnownKinds

\* C7: an attribute with prefix v- of none of the six kinds leaves the
\* attribute list of its node only by aborting the execution with
\* UnknownDirective, and no execution of a template that holds such an
\* attribute returns a tree.
C7_UnknownDirectiveFails ==
    [][/\ \A n \in 1..Len(nodes) :
            \A a \in Range(nodes[n].attr) :
               IsUnknownDirective(a)
                  => \/ a \in Range(nodes'[n].attr)
                     \/ (phase' = "failed" /\ err'.kind = "UnknownDirective")
       /\ phase' = "done"
            => \A k \in 1..Len(comp.tmpl) :
                  \A a \in Range(comp.tmpl[k].attr) : ~IsUnknownDirective(a)]_vars

\* The fields a data context is written with.
UserKeys == {sOk, sMsg, sItems, sXs}

\* The synthetic keys the loops have added to the data context.
SyntheticKeys == (DOMAIN data) \ UserKeys

\* C8: no two loop iterations of one execution receive the same synthetic
\* key: the data context holds as many synthetic keys as iterations were
\* performed.
C8_KeysUnique == Cardinality(SyntheticKeys) = id

\* The loop of executeElement stands at a v-bind attribute whose field is
\* present; the name it binds is (or is not) a declared prop of the node's
\* subcomponent.
AtBind(toProp) ==
    /\ AtDirective(vBind)
    /\ HasKey(data, curAttr.val)
    /\ toProp = (top.sub.ok /\ Title(curPart) \in top.sub.declared)

\* C9: a Bind step on a name that is no subcomponent prop removes the
\* v-bind attribute and, when the field is boolean false, adds nothing;
\* for any other value it appends exactly one attribute, whose key is the
\* bound name and whose value is the field as text ("true" for boolean
\* true); no other node changes.
C9_BindAttribute ==
    [][AtBind(FALSE) =>
         LET field == data[curAttr.val]
             rest == RemoveAt(nodes[curNode].attr, top.i)
             b == nodes'[curNode].attr
         IN /\ err' = NoError
            /\ curAttr \notin Range(b)
            /\ \A m \in 1..Len(nodes) : m # curNode => nodes'[m] = nodes[m]
            /\ Len(nodes') = Len(nodes)
            /\ IF field = BoolV(FALSE)
               THEN b = rest
               ELSE /\ Len(b) = Len(rest) + 1
                    /\ SubSeq(b, 1, Len(rest)) = rest
                    /\ b[Len(b)].key = curPart
                    /\ field.t = "str" => b[Len(b)].val = field.s
                    /\ field = BoolV(TRUE) => b[Len(b)].val = <<"t", "r", "u", "e">>]_vars

\* A Bind step on the boolean true field Ok has appended x="true".
C9_Witness ==
    /\ ret.op = "bind"
    /\ phase = "element"
    /\ HasKey(data, sOk)
    /\ data[sOk] = BoolV(TRUE)
    /\ nodes[ret.node].attr # <<>>
    /\ nodes[ret.node].attr[Len(nodes[ret.node].attr)] = Attribute(<<"x">>, <<"t", "r", "u", "e">>)

\* C10: a Bind step on a name that is a declared prop of the node's
\* subcomponent stores the field's value under that prop in the prop map,
\* changes no other prop, and appends no attribute to the placeholder: the
\* node only loses the v-bind attribute.
C10_BindProp ==
    [][AtBind(TRUE) =>
         LET field == data[curAttr.val]
             prop == Title(curPart)
             props == top.sub.props
             after == stack'[Len(stack')].sub.props
         IN /\ err' = NoError
            /\ Len(stack') = Len(stack)
            /\ DOMAIN after = (DOMAIN props) \cup {prop}
            /\ after[prop] = field
            /\ \A q \in (DOMAIN props) \ {prop} : after[q] = props[q]
            /\ nodes' = [nodes EXCEPT ![curNode].attr = RemoveAt(@, top.i)]]_vars

\* A Bind step has stored boolean false under the prop Title.
C10_Witness ==
    /\ ret.op = "bind"
    /\ phase = "element"
    /\ stack # <<>>
    /\ top.sub.ok
    /\ HasKey(top.sub.props, <<"T", "i", "t", "l", "e">>)
    /\ top.sub.props[<<"T", "i", "t", "l", "e">>] = BoolV(FALSE)

\* C11: once a bind, model or on handler has run on a node, no for or if
\* directive of that node removes or multiplies it afterwards.
\* executeAttrOn appends the attribute (event name, method) to the node and
\* the loop of executeElement dispatches on appended attributes too: with
\* v-on:v-if="Ok" the on handler registers a listener and appends v-if="Ok",
\* which then removes the node when Ok is not true.
C11_StructuralFirst ==
    [][(AtDirective(vFor) \/ AtDirective(vIf)) /\ curNode \in hist.handled
         => ~ret'.modified]_vars

\* The loop of executeElement stands at a directive attribute of any kind.
AtAnyDirective ==
    /\ phase = "element"
    /\ stack # <<>>
    /\ top.pc = "attrs"
    /\ top.i <= Len(nodes[curNode].attr)
    /\ HasPrefix(curAttr.key, v)

\* The node of some call of executeElement still on the stack.
OnStack(n) == \E k \in 1..Len(stack) : stack[k].node = n

\* The attribute loop of the frame has run to its end.
PastAttrs(f) ==
    \/ f.pc = "children"
    \/ f.pc = "attrs" /\ f.i > Len(nodes[f.node].attr)

\* One dispatch step takes exactly the attribute at the loop index from the
\* node, whatever the handler appends.
OneConsumed ==
    AtAnyDirective =>
        LET before == RemoveAt(nodes[curNode].attr, top.i)
            after == nodes'[curNode].attr
        IN /\ Len(after) >= Len(before)
           /\ SubSeq(after, 1, Len(before)) = before

\* A structural signal ends the call on the node: the frame is popped with
\* the returned node as the caller's cursor, and no call on the node remains.
SignalStops ==
    AtAnyDirective /\ ret'.modified /\ phase' # "failed" =>
        /\ stack' = Returned(ret'.next)
        /\ nodes'[curNode].kids = nodes[curNode].kids
        /\ curNode \in hist'.signalled

\* No call of executeElement is at work on a node after its structural
\* signal, so nothing is dispatched on it and its children are not entered.
NoWorkAfterSignal == \A n \in hist.signalled : ~OnStack(n)

\* Where the attribute loop has ended without a signal, no directive
\* attribute remains on the node.
LoopEndsClean ==
    \A k \in 1..Len(stack) :
        PastAttrs(stack[k]) =>
            \A j \in 1..Len(nodes[stack[k].node].attr) :
                ~HasPrefix(nodes[stack[k].node].attr[j].key, v)

\* C12: a dispatch step consumes one directive attribute; after a For
\* expansion or an If removal nothing more is dispatched on the node and its
\* children are not descended into; without such a signal the loop ends only
\* when no attribute with the prefix v- remains on the node.
C12_DispatchLoop ==
    [][/\ OneConsumed
       /\ SignalStops
       /\ NoWorkAfterSignal'
       /\ LoopEndsClean']_vars

\* An execution has finished in which one node gave a structural signal and
\* another had its attribute loop run to the end through a handler.
C12_Witness ==
    /\ phase = "done"
    /\ hist.signalled # {}
    /\ hist.handled \ hist.signalled # {}

\* The element pass of execute has returned.
ElementPassOver == phase \in {"text", "done"}

\* The elements of the tree under the root.
TreeElements ==
    {n \in Range(Preorder(nodes, 1)) : nodes[n].type = "element"}

\* No node is passed to executeElement twice.
CalledOnce ==
    \A j, k \in 1..Len(hist.calls) : j # k => hist.calls[j] # hist.calls[k]

\* Every element of the tree has been passed to executeElement, by this
\* execution or, for the spliced nodes, by the nested one that made them.
AllProcessed ==
    ElementPassOver => TreeElements \subseteq Range(hist.calls) \cup hist.spliced

\* The cursor of every children loop is nil or a child of the loop's node.
CursorInTree ==
    \A k \in 1..Len(stack) :
        stack[k].pc = "children" /\ stack[k].child # 0 =>
            /\ nodes[stack[k].child].parent = stack[k].node
            /\ PosIn(nodes[stack[k].node].kids, stack[k].child) # 0

\* C13: no node is passed to executeElement twice; when the element pass
\* ends every element of the tree, loop clones and html-injected nodes
\* included, has been processed; no removed node is used as the cursor.
C13_EachElementOnce == CalledOnce /\ AllProcessed /\ CursorInTree

\* An execution has finished in which a loop was expanded and the element
\* injected by html into a clone was processed.
C13_Witness ==
    /\ phase = "done"
    /\ \E n \in hist.signalled : ret.op = "on" /\ n < ret.node
    /\ \E n \in Range(hist.calls) :
          /\ n > Len(parseNode(comp.tmpl))
          /\ nodes[n].data = <<"b">>
          /\ nodes[nodes[n].parent].data = <<"p">>

\* C14: a model step on an absent or non-string field raises the error with
\* no attribute appended and no handler registered; a successful one appends
\* input=<field> and value=<string> and registers the built-in handler.
\* executeAttrModel appends the input attribute and registers the handler
\* before it looks the field up, so both effects are there when must fires.
C14_ModelChecksFirst ==
    [][AtDirective(vModel) =>
         LET field == curAttr.val
             kept == deleteAttr(nodes[curNode].attr, top.i)
             good == HasKey(data, field) /\ data[field].t = "str"
         IN IF good
            THEN /\ phase' # "failed"
                 /\ nodes'[curNode].attr =
                        kept \o <<Attribute(<<"i", "n", "p", "u", "t">>, field),
                                  Attribute(<<"v", "a", "l", "u", "e">>, data[field].s)>>
                 /\ listeners' = addEventListener(listeners, <<"i", "n", "p", "u", "t">>, "vModel")
            ELSE /\ phase' = "failed"
                 /\ nodes'[curNode].attr = kept
                 /\ listeners' = listeners]_vars

\* C15: a For step leaves every key of the data context in place and bound
\* to the value it had; it only adds keys that were not there.
\* The key of an iteration is the loop variable followed by the counter in
\* decimal, so A1 with id 0 and A with id 10 are both A10: the second loop
\* of SiblingLoopsTmpl rebinds a key the first loop has put there.
C15_Additive ==
    [][AtDirective(vFor) =>
         \A k \in DOMAIN data : k \in DOMAIN data' /\ data'[k] = data[k]]_vars

\* The attribute loop of a subcomponent placeholder has ended.
AtSub ==
    /\ phase = "element"
    /\ stack # <<>>
    /\ top.pc = "attrs"
    /\ top.i > Len(nodes[curNode].attr)
    /\ top.sub.ok

\* The splice step: the children of the nested root, in their order, take
\* the placeholder's place among its siblings as fresh nodes; the nested
\* root keeps no child; the placeholder is detached with its own children;
\* the call returns the placeholder's former next sibling.
SplicedInPlace ==
    AtSub =>
        LET out == executeSub(top.sub)
            p == nodes[curNode].parent
            old == nodes[p].kids
            pos == PosIn(old, curNode)
            new == nodes'[p].kids
            cnt == Len(out[1].kids)
            ins == SubSeq(new, pos, pos + cnt - 1)
        IN /\ Len(new) = Len(old) - 1 + cnt
           /\ SubSeq(new, 1, pos - 1) = SubSeq(old, 1, pos - 1)
           /\ SubSeq(new, pos + cnt, Len(new)) = SubSeq(old, pos + 1, Len(old))
           /\ \A j \in 1..cnt :
                 /\ ins[j] > Len(nodes)
                 /\ nodes'[ins[j]].parent = p
                 /\ Render(nodes', ins[j]) = Render(out, out[1].kids[j])
           /\ nodes'[Len(nodes) + 1].kids = <<>>
           /\ nodes'[curNode].parent = 0
           /\ nodes'[curNode].kids = nodes[curNode].kids
           /\ stack' = Returned(NextSibling(nodes, curNode))
           /\ hist'.spliced = hist.spliced \cup {Len(nodes) + k : k \in 2..Len(out)}

\* The nodes under the placeholders that were replaced.
UnderPlaceholders ==
    UNION {Range(PreorderAll(nodes, nodes[n].kids)) : n \in hist.placeholders}

\* The element pass of this execution calls executeElement neither on a
\* spliced node nor on a node under a replaced placeholder.
SplicedLeftAlone ==
    /\ Range(hist.calls) \cap hist.spliced = {}
    /\ Range(hist.calls) \cap UnderPlaceholders = {}

\* C16: the children of the nested output are inserted in their order
\* immediately before the placeholder, the placeholder is removed, and the
\* traversal resumes at the placeholder's former next sibling: no directive
\* is dispatched on a spliced node and the placeholder's children are not
\* descended into.
C16_SpliceInPlace == [][SplicedInPlace /\ SplicedLeftAlone']_vars

\* A placeholder with a child of its own and a following sibling has been
\* replaced by the two children of the nested output, and the execution has
\* gone on to the end.
C16_Witness ==
    /\ phase = "done"
    /\ \E n \in hist.placeholders : nodes[n].kids # <<>>
    /\ Len(nodes[1].kids) = 3
    /\ nodes[nodes[1].kids[1]].data = <<"h">>
    /\ nodes[nodes[1].kids[2]].data = <<"s">>
    /\ nodes[nodes[1].kids[3]].data = <<"q">>

\* The text pass stands at a node.
AtText == phase = "text" /\ todo # <<>>

\* Text of white space only.
Blank(text) == \A k \in 1..Len(text) : IsSpace(text[k])

\* The text nodes of a sequence of nodes, in its order.
TextsOf(ns, seq) == SelectSeq(seq, LAMBDA n : ns[n].type = "text")

\* Until the element pass has returned, no step changes the content of a
\* text node.
NoTextBeforeTextPass ==
    phase \in {"init", "element"} =>
        \A n \in 1..Len(nodes) : nodes[n].type = "text" => nodes'[n].data = nodes[n].data

\* A step of the text pass leaves blank text as it is, without a call of the
\* engine, and changes nothing but the content of the text node it is at.
TextStep ==
    AtText =>
        LET n == Head(todo)
        IN /\ Len(nodes') = Len(nodes)
           /\ \A k \in 1..Len(nodes) :
                 /\ nodes'[k].attr = nodes[k].attr
                 /\ nodes'[k].kids = nodes[k].kids
                 /\ nodes'[k].parent = nodes[k].parent
                 /\ nodes'[k].type = nodes[k].type
                 /\ k # n \/ nodes[n].type # "text" => nodes'[k].data = nodes[k].data
           /\ nodes[n].type = "text" /\ Blank(nodes[n].data) =>
                 /\ nodes' = nodes
                 /\ hist'.rendered = hist.rendered
                 /\ phase' # "failed"

\* The text pass has visited the nodes of the tree in document order.
VisitedInOrder ==
    phase = "done" =>
        /\ hist.visits = Preorder(nodes, 1)
        /\ TextsOf(nodes, hist.visits) = TextsOf(nodes, Preorder(nodes, 1))

\* C17: no text node's content is rewritten before the element pass over
\* the whole tree has returned; the text pass then visits every text node
\* of the resulting tree in document order, leaves blank text unchanged and
\* changes no attribute of any element.
C17_TextPassLater == [][NoTextBeforeTextPass /\ TextStep /\ VisitedInOrder']_vars

\* An execution has finished whose tree holds a blank text node, text
\* injected by html after it, and top-level text that was interpolated.
C17_Witness ==
    /\ phase = "done"
    /\ comp.tmpl = MixedTmpl
    /\ \E n \in Range(hist.visits) : nodes[n].type = "text" /\ nodes[n].data = <<" ">>
    /\ \E r \in Range(hist.rendered) : r.ctx = "parent" /\ nodes[r.node].data = <<"h", "i">>
    /\ Len(TextsOf(nodes, hist.visits)) >= 3

\* The node carries an attribute with the directive prefix.
HasDirective(n) ==
    \E j \in 1..Len(nodes[n].attr) : HasPrefix(nodes[n].attr[j].key, v)

\* C18: after a successful execution no element of the output tree carries
\* an attribute whose key starts with v-, whether the element is original,
\* a loop clone, injected by html or spliced in from a subcomponent.
C18_NoDirectiveLeft ==
    phase = "done" => \A n \in TreeElements : ~HasDirective(n)

\* A successful execution whose output holds an element injected by html,
\* with the attribute its on directive left, and spliced nodes.
C18_Witness ==
    /\ phase = "done"
    /\ comp.tmpl = MixedTmpl
    /\ hist.spliced \cap TreeElements # {}
    /\ \E n \in TreeElements :
          /\ n > Len(parseNode(comp.tmpl))
          /\ nodes[n].attr = <<Attribute(<<"c", "l", "i", "c", "k">>, sHi)>>

\* The html step injects a copy of the element it is dispatched on, the
\* v-html attribute included: the call of executeElement on the copy, with
\* the same data, stands where this call stood.
InjectsItself ==
    /\ AtDirective(vHtml)
    /\ phase' = "element"
    /\ \E c \in Range(nodes'[curNode].kids) :
          /\ c > Len(nodes)
          /\ Render(nodes', c) = Render(nodes, curNode)
          /\ data' = data

\* C19: every execution terminates, also when a string injected by html
\* holds directive attributes: no html step puts the execution back where
\* it stood one level up.
\* With Msg = <b v-html="Msg"></b> each html step on <b v-html="Msg"> injects
\* the same element again and the children loop calls executeElement on it,
\* without end; the model follows this up to MaxDepth calls.
C19_Terminates == [][~InjectsItself]_vars

\* The calls of the interpolation engine on the text node n, in order.
Renders(n) == SelectSeq(hist.rendered, LAMBDA r : r.node = n)

\* C20: every non-blank text node of the output tree has been rendered by
\* the interpolation engine exactly once, against the context of the
\* template it came from: the props of the subcomponent for a spliced
\* node, the data of this execution for every other.
\* executeText starts at the root after the splice, so it walks the spliced
\* text too: <h>{{Title}}</h> is rendered by the nested execution against
\* the props and then once more against the data of the parent.
C20_RenderedOnce ==
    phase = "done" =>
        \A n \in Range(TextsOf(nodes, Preorder(nodes, 1))) :
            ~Blank(nodes[n].data) =>
                Renders(n) = <<[node |-> n,
                                ctx |-> IF n \in hist.spliced THEN "sub" ELSE "parent"]>>

====
